---- MODULE Spec2Model ----
(***************************************************************************)
(* A model of the_quiz (src/main.rs): the source-selection menu, the two   *)
(* ingestion paths (questions.xml through parse_data, the trivia API       *)
(* through reqwest/serde) and the quiz loop run_game.                      *)
(*                                                                         *)
(* The terminal, the file system, the network and the XML reader are the   *)
(* environment: their answers are chosen nondeterministically from the     *)
(* bounded sets defined below.                                             *)
(***************************************************************************)
EXTENDS Integers, Sequences, FiniteSets, TLC

VARIABLES
    pc,                   \* where the main thread is
    exit_code,            \* -1 while running, else the process exit status
    sigint,               \* "none", or "raised": the Ctrl-C handler is running
    out,                  \* the lines printed to stdout, oldest first
    io,                   \* the ingestion calls made so far, with their outcome
    queue,                \* terminal events not yet taken by read()
    inputs_left,          \* terminal events the user will still generate
    xml_stack,            \* XML reader: names of the elements that are open
    xml_roots,            \* XML reader: root elements opened so far (0 or 1)
    xml_left,             \* XML reader: events the rest of the file can hold
    xml_closed,           \* question elements closed in the file so far
    xml_flat,             \* no question element was opened inside another
    xml_text,             \* per open element: if it is a field element, the
                          \* text events read since it opened, joined; else ""
    xml_bad_close,        \* unexpected closing tags read so far
    skip,                 \* the outermost open element whose opening tag was
                          \* unexpected: None, or Some of its depth and of
                          \* data, cur_question, cur_data, the number of lines
                          \* printed and xml_left before it opened
    data,                 \* parse_data: data
    cur_question,         \* parse_data: cur_question
    cur_data,             \* parse_data: cur_data
    questions,            \* main: questions / run_game: the list iterated
    qi,                   \* run_game: 1-based index of q in questions
    options,              \* run_game: options
    shown,                \* the option lines of the question on display
    correct_answer,       \* run_game: correct_answer
    answer,               \* run_game: answer
    answered_correctly,   \* run_game: answered_correctly
    answered_incorrectly, \* run_game: answered_incorrectly
    last_key              \* run_game: the event read() returned last in this round

xmlvars == <<xml_stack, xml_roots, xml_left, xml_closed, xml_flat, xml_text,
             xml_bad_close, skip>>
parsevars == <<data, cur_question, cur_data>>
gamevars == <<qi, options, shown, correct_answer, answer, answered_correctly,
              answered_incorrectly, last_key>>
termvars == <<queue, inputs_left>>
vars == <<pc, exit_code, sigint, out, io, queue, inputs_left, xml_stack, xml_roots,
          xml_left, xml_closed, xml_flat, xml_text, xml_bad_close, skip, data, cur_question, cur_data,
          questions, qi, options, shown, correct_answer, answer, answered_correctly,
          answered_incorrectly, last_key>>

---------------------------------------------------------------------------
(* Bounds of the model. *)

MaxXmlEvents == 8    \* events of the longest questions.xml (parse_data alone)
MaxXmlShort == 2     \* events of the longest questions.xml (whole program)
MaxDepth == 3        \* deepest element nesting in questions.xml
MaxQuestions == 2    \* longest question list the API answers with
MaxWrong == 1        \* wrong answers of an ordinary API question
BigWrong == 9        \* wrong answers of the one long API question
MaxInputs == 3       \* terminal events generated in one run

---------------------------------------------------------------------------
(* Option<T>: None is the empty sequence, Some(x) the one-element one. *)

None == <<>>
Some(x) == <<x>>
IsSome(o) == o # <<>>
Unwrap(o) == o[1]

Last(s) == s[Len(s)]

(* One printed line. kind names the println! that wrote it. *)
(* n, m: the numbers in it; s: its text.                                    *)
Line(kind, n, s) == [kind |-> kind, n |-> n, m |-> 0, s |-> s]
TallyLine(c, w) == [kind |-> "tally", n |-> c, m |-> w, s |-> "That's it!"]

(* std::process::exit(code) and a panic of the main thread (status 101). *)
Exited == "exited"
Panicked == "panicked"
PanicStatus == 101

---------------------------------------------------------------------------
(* struct Question and Question::new. *)

Question(text, ans, wrong) == [text |-> text, answer |-> ans, wrong_answers |-> wrong]

QuestionNew == Question("", "", <<>>)

---------------------------------------------------------------------------
(* parse_data. The XML reader hands over one event per loop iteration; the *)
(* events of a file are properly nested, under one root element, and text  *)
(* that is not white space only comes inside an element.                   *)

FieldTags == {"prompt", "correctAnswer", "incorrectAnswer"}
TagNames == {"question"} \cup FieldTags \cup {"quiz"}   \* "quiz": any other name
Texts == {"a", "b"}

(* warn_unexpected_tag: the line it prints. *)
warn_unexpected_tag(name, closing) == Line("warn", IF closing THEN 1 ELSE 0, name)

(* What one loop iteration leaves behind: the three locals, the warning    *)
(* printed (None or Some line) and whether the iteration panicked.         *)
Step(d, cq, cd, warn, panic) ==
    [data |-> d, cur_question |-> cq, cur_data |-> cd, warn |-> warn, panic |-> panic]

(* XmlEvent::StartElement *)
OnStartElement(name, d, cq, cd) ==
    IF name = "question" THEN Step(d, Some(QuestionNew), cd, None, FALSE)
    ELSE IF name \in FieldTags THEN
        IF IsSome(cq) THEN Step(d, cq, Some(""), None, FALSE)
        ELSE Step(d, cq, cd, Some(warn_unexpected_tag(name, FALSE)), FALSE)
    ELSE Step(d, cq, cd, Some(warn_unexpected_tag(name, FALSE)), FALSE)

SetField_Swapped(question, name, s) ==
    IF name = "prompt" THEN [question EXCEPT !.answer = s]
    ELSE IF name = "correctAnswer" THEN [question EXCEPT !.text = s]
    ELSE IF name = "incorrectAnswer"
         THEN [question EXCEPT !.wrong_answers = Append(@, s)]
    ELSE question

(* The field assignment of a closing prompt / correctAnswer / incorrectAnswer. *)
SetField(question, name, s) ==
    IF name = "prompt" THEN [question EXCEPT !.text = s]
    ELSE IF name = "correctAnswer" THEN [question EXCEPT !.answer = s]
    ELSE IF name = "incorrectAnswer"
         THEN [question EXCEPT !.wrong_answers = Append(@, s)]
    ELSE question

PushQuestion_Front(d, q) == <<q>> \o d

(* data.push(cur_question.take().unwrap()) *)
PushQuestion(d, q) == Append(d, q)

(* XmlEvent::EndElement *)
OnEndElement(name, d, cq, cd) ==
    IF name = "question" THEN
        IF IsSome(cq) THEN Step(PushQuestion(d, Unwrap(cq)), None, cd, None, FALSE)
        ELSE Step(d, cq, cd, Some(warn_unexpected_tag("question", TRUE)), FALSE)
    ELSE IF name \in FieldTags THEN
        IF IsSome(cq) THEN
            IF IsSome(cd)
            THEN Step(d, Some(SetField(Unwrap(cq), name, Unwrap(cd))), None, None, FALSE)
            ELSE Step(d, None, None, None, TRUE)       \* cur_data.take().unwrap()
        ELSE Step(d, cq, cd, Some(warn_unexpected_tag(name, TRUE)), FALSE)
    ELSE Step(d, cq, cd, None, FALSE)

OnCharacters_Replace(s, d, cq, cd) ==
    IF IsSome(cd) THEN Step(d, cq, Some(s), None, FALSE)
    ELSE Step(d, cq, cd, None, TRUE)

(* XmlEvent::Characters *)
OnCharacters(s, d, cq, cd) ==
    IF IsSome(cd) THEN Step(d, cq, Some(Unwrap(cd) \o s), None, FALSE)
    ELSE Step(d, cq, cd, None, TRUE)                   \* panic!("We should not ...")

(* The main thread takes the outcome of one iteration. *)
Take(st) ==
    /\ data' = st.data
    /\ cur_question' = st.cur_question
    /\ cur_data' = st.cur_data
    /\ out' = IF IsSome(st.warn) THEN Append(out, Unwrap(st.warn)) ELSE out
    /\ pc' = IF st.panic THEN Panicked ELSE "parse"
    /\ exit_code' = IF st.panic THEN PanicStatus ELSE exit_code

(* The closing tags the claims call unexpected: a question or field tag    *)
(* with no question in progress, or a tag of any other name.               *)
UnexpectedClose(name, cq) == name \in {"question"} \cup FieldTags => ~IsSome(cq)

(* A text event is part of the content of every open field element. *)
AddText(texts, stack, s) ==
    [i \in 1..Len(texts) |-> IF stack[i] \in FieldTags THEN texts[i] \o s ELSE texts[i]]

(* The opening tags the warning is about. *)
Unexpected(name, cq) == name # "question" /\ (name \in FieldTags => ~IsSome(cq))

InElement(name) == \E i \in 1..Len(xml_stack) : xml_stack[i] = name

ParseStartElement ==
    /\ pc = "parse"
    /\ xml_left > 0
    /\ Len(xml_stack) < MaxDepth
    /\ xml_stack # <<>> \/ xml_roots = 0
    /\ \E name \in TagNames :
        /\ Take(OnStartElement(name, data, cur_question, cur_data))
        /\ xml_stack' = Append(xml_stack, name)
        /\ xml_flat' = (xml_flat /\ ~(name = "question" /\ InElement("question")))
        /\ skip' = IF ~IsSome(skip) /\ Unexpected(name, cur_question)
                   THEN Some([depth |-> Len(xml_stack) + 1, data |-> data,
                              cur_question |-> cur_question, cur_data |-> cur_data,
                              lines |-> Len(out), left |-> xml_left])
                   ELSE skip
    /\ xml_roots' = IF xml_stack = <<>> THEN xml_roots + 1 ELSE xml_roots
    /\ xml_text' = Append(xml_text, "")
    /\ xml_left' = xml_left - 1
    /\ UNCHANGED <<sigint, io, termvars, xml_closed, xml_bad_close, questions,
                   gamevars>>

ParseEndElement ==
    /\ pc = "parse"
    /\ xml_left > 0
    /\ xml_stack # <<>>
    /\ Take(OnEndElement(Last(xml_stack), data, cur_question, cur_data))
    /\ xml_closed' = IF Last(xml_stack) = "question" THEN xml_closed + 1 ELSE xml_closed
    /\ xml_stack' = SubSeq(xml_stack, 1, Len(xml_stack) - 1)
    /\ xml_text' = SubSeq(xml_text, 1, Len(xml_text) - 1)
    /\ xml_bad_close' = IF UnexpectedClose(Last(xml_stack), cur_question)
                        THEN xml_bad_close + 1 ELSE xml_bad_close
    /\ skip' = IF IsSome(skip) /\ Unwrap(skip).depth = Len(xml_stack) THEN None ELSE skip
    /\ xml_left' = xml_left - 1
    /\ UNCHANGED <<sigint, io, termvars, xml_roots, xml_flat, questions, gamevars>>

ParseCharacters ==
    /\ pc = "parse"
    /\ xml_left > 0
    /\ xml_stack # <<>>
    /\ \E s \in Texts :
        /\ Take(OnCharacters(s, data, cur_question, cur_data))
        /\ xml_text' = AddText(xml_text, xml_stack, s)
    /\ xml_left' = xml_left - 1
    /\ UNCHANGED <<sigint, io, termvars, xml_stack, xml_roots, xml_closed,
                   xml_flat, xml_bad_close, skip, questions, gamevars>>

(* Any other event (StartDocument, Whitespace, Comment, CData, ...): `_ => {}`. *)
ParseOther ==
    /\ pc = "parse"
    /\ xml_left > 0
    /\ xml_left' = xml_left - 1
    /\ UNCHANGED <<sigint, pc, exit_code, out, io, termvars, xml_stack, xml_roots,
                   xml_closed, xml_flat, xml_text, xml_bad_close, skip, parsevars,
                   questions, gamevars>>

Fatal_FallsBack(call, msg) ==
    /\ io' = Append(io, [call |-> call, ok |-> FALSE])
    /\ out' = Append(out, Line("fatal", 0, msg))
    /\ pc' = IF call = "open" THEN "api_get" ELSE Exited
    /\ exit_code' = IF call = "open" THEN exit_code ELSE 1

(* A fatal ingestion error: the message, then std::process::exit(1). io    *)
(* records the call that failed.                                           *)
Fatal(call, msg) ==
    /\ io' = Append(io, [call |-> call, ok |-> FALSE])
    /\ out' = Append(out, Line("fatal", 0, msg))
    /\ pc' = Exited
    /\ exit_code' = 1

(* Err(e): the file is not well-formed XML from here on (this includes a   *)
(* file that ends inside an element, or that has no root element).         *)
ParseError ==
    /\ pc = "parse"
    /\ Fatal("xml", "Error")
    /\ UNCHANGED <<sigint, termvars, xmlvars, parsevars, questions, gamevars>>

(* The loop over run_game's questions starts at its first element. *)
EnterGame(qs) ==
    /\ questions' = qs
    /\ qi' = 1
    /\ pc' = IF qs = <<>> THEN "tally" ELSE "present"

(* The reader is exhausted: the root element is closed. parse_data returns *)
(* data to get_questions_from_file, get_questions and main, which calls    *)
(* run_game.                                                               *)
ParseReturn ==
    /\ pc = "parse"
    /\ xml_roots = 1
    /\ xml_stack = <<>>
    /\ EnterGame(data)
    /\ UNCHANGED <<sigint, exit_code, out, io, termvars, xmlvars, parsevars, options,
                   shown, correct_answer, answer, answered_correctly,
                   answered_incorrectly, last_key>>

NextParse ==
    \/ ParseStartElement
    \/ ParseEndElement
    \/ ParseCharacters
    \/ ParseOther
    \/ ParseError
    \/ ParseReturn

---------------------------------------------------------------------------
(* The state at program start, and at the entry of parse_data.             *)

NoEvent == [kind |-> "none", code |-> "", stale |-> FALSE]

InitCommon ==
    /\ exit_code = -1
    /\ sigint = "none"
    /\ xml_stack = <<>>
    /\ xml_roots = 0
    /\ xml_closed = 0
    /\ xml_flat = TRUE
    /\ xml_text = <<>>
    /\ xml_bad_close = 0
    /\ skip = None
    /\ data = <<>>
    /\ cur_question = None
    /\ cur_data = None
    /\ questions = <<>>
    /\ qi = 1
    /\ options = <<>>
    /\ shown = <<>>
    /\ correct_answer = 0
    /\ answer = -1
    /\ answered_correctly = 0
    /\ answered_incorrectly = 0
    /\ last_key = NoEvent

MenuLines == <<Line("menu", 0, "What question source should be used?")>>

(* parse_data is entered with questions.xml open: key 1 was read. *)
InitParse ==
    /\ InitCommon
    /\ io = <<[call |-> "open", ok |-> TRUE]>>
    /\ queue = <<>>
    /\ inputs_left = 0
    /\ pc = "parse"
    /\ out = MenuLines
    /\ xml_left = MaxXmlEvents

SpecParse == InitParse /\ [][NextParse]_vars

---------------------------------------------------------------------------
(* The terminal. What read() returns next is the head of queue: a key      *)
(* press (code: the character), another event (resize, mouse, ...) or an   *)
(* error. stale tells whether the item was generated before the question   *)
(* now on display was displayed.                                           *)

DigitChars == <<"0", "1", "2", "3", "4", "5", "6", "7", "8", "9">>
Radix == 10

KeyCodes == {"0", "1", "2", "a"}
Events == {[kind |-> "key", code |-> c, stale |-> FALSE] : c \in KeyCodes}
          \cup {[kind |-> k, code |-> "", stale |-> FALSE] : k \in {"other", "error"}}

(* The user does something while the program is at the menu or in a round. *)
(* (An event generated during ingestion waits in the queue exactly like    *)
(* one generated at the menu after the selecting key.)                     *)
Input ==
    /\ pc \in {"menu", "present", "await", "decided"}
    /\ inputs_left > 0
    /\ inputs_left' = inputs_left - 1
    /\ \E e \in Events : queue' = Append(queue, e)
    /\ UNCHANGED <<sigint, pc, exit_code, out, io, xmlvars, parsevars,
                   questions, gamevars>>

---------------------------------------------------------------------------
(* get_questions: the menu loop. *)

MenuTarget_Default(e) ==
    IF e.kind = "key" /\ e.code = "2" THEN "api_get"
    ELSE IF e.kind = "key" THEN "load_file"
    ELSE "menu"

(* The match on the event read at the menu. *)
MenuTarget(e) ==
    IF e.kind = "key" /\ e.code = "1" THEN "load_file"
    ELSE IF e.kind = "key" /\ e.code = "2" THEN "api_get"
    ELSE "menu"

MenuRead ==
    /\ pc = "menu"
    /\ queue # <<>>
    /\ Head(queue).kind # "error"
    /\ pc' = MenuTarget(Head(queue))
    /\ queue' = Tail(queue)
    /\ UNCHANGED <<sigint, exit_code, out, io, inputs_left, xmlvars, parsevars,
                   questions,
                   gamevars>>

(* Err(_) => {} *)
MenuReadErr ==
    /\ pc = "menu"
    /\ queue # <<>>
    /\ Head(queue).kind = "error"
    /\ queue' = Tail(queue)
    /\ UNCHANGED <<sigint, pc, exit_code, out, io, inputs_left, xmlvars, parsevars,
                   questions, gamevars>>

---------------------------------------------------------------------------
(* load_file, get_questions_from_api. *)

LoadFileOk ==
    /\ pc = "load_file"
    /\ io' = Append(io, [call |-> "open", ok |-> TRUE])
    /\ pc' = "parse"
    /\ UNCHANGED <<sigint, exit_code, out, termvars, xmlvars, parsevars,
                   questions, gamevars>>

LoadFileMissing ==
    /\ pc = "load_file"
    /\ Fatal("open", "questions.xml not found. Exiting.")
    /\ UNCHANGED <<sigint, termvars, xmlvars, parsevars, questions, gamevars>>

ApiGetOk ==
    /\ pc = "api_get"
    /\ io' = Append(io, [call |-> "get", ok |-> TRUE])
    /\ pc' = "api_json"
    /\ UNCHANGED <<sigint, exit_code, out, termvars, xmlvars, parsevars,
                   questions, gamevars>>

ApiGetErr ==
    /\ pc = "api_get"
    /\ Fatal("get", "Error on download")
    /\ UNCHANGED <<sigint, termvars, xmlvars, parsevars, questions, gamevars>>

(* What res.json() can decode: any list of questions. *)
ApiQuestion(m) == Question("Q", "A", [i \in 1..m |-> "W" \o ToString(i)])
ApiQuestions == {ApiQuestion(m) : m \in {MaxWrong, BigWrong}}
ApiLists == UNION {[1..k -> ApiQuestions] : k \in 0..MaxQuestions}

ApiJsonOk ==
    /\ pc = "api_json"
    /\ io' = Append(io, [call |-> "json", ok |-> TRUE])
    /\ \E qs \in ApiLists : EnterGame(qs)
    /\ UNCHANGED <<sigint, exit_code, out, termvars, xmlvars, parsevars, options,
                   shown, correct_answer, answer, answered_correctly,
                   answered_incorrectly, last_key>>

ApiJsonErr ==
    /\ pc = "api_json"
    /\ Fatal("json", "Error on deserialiation")
    /\ UNCHANGED <<sigint, termvars, xmlvars, parsevars, questions, gamevars>>

---------------------------------------------------------------------------
(* run_game. options holds the values 0..wrong_answers.len(); display      *)
(* position p (0-based) is options[p + 1].                                 *)

AllOrders(n) ==
    {p \in [1..n -> 0..(n - 1)] : \A i, j \in 1..n : p[i] = p[j] => i = j}
Rotations(n) == {[i \in 1..n |-> (i - 1 + r) % n] : r \in 0..(n - 1)}

ShuffleOutcomes_NoAnswer(n) ==
    IF n <= MaxWrong + 1 THEN AllOrders(n - 1) ELSE Rotations(n - 1)

(* options.shuffle(&mut rng): every order for the ordinary questions; for  *)
(* the long question the rotations of 0..n-1.                              *)
ShuffleOutcomes(n) == IF n <= MaxWrong + 1 THEN AllOrders(n) ELSE Rotations(n)

(* The loop over options.iter().enumerate(): the position stored in        *)
(* correct_answer, which starts at 0.                                      *)
RECURSIVE ScanCorrect(_, _, _, _)
ScanCorrect_Order(opts, len, i, acc) ==
    IF i > Len(opts) THEN acc
    ELSE ScanCorrect(opts, len, i + 1, IF opts[i] = len THEN opts[i] ELSE acc)

ScanCorrect(opts, len, i, acc) ==
    IF i > Len(opts) THEN acc
    ELSE ScanCorrect(opts, len, i + 1, IF opts[i] = len THEN i - 1 ELSE acc)

CorrectPosition(q, opts) == ScanCorrect(opts, Len(q.wrong_answers), 1, 0)

(* The line printed for the option at 1-based index i of options. *)
OptionLine(q, opts, i) ==
    IF opts[i] = Len(q.wrong_answers)
    THEN Line("option", i, q.answer)
    ELSE Line("option", i, q.wrong_answers[opts[i] + 1])

RenderLines(q, opts) == [i \in 1..Len(opts) |-> OptionLine(q, opts, i)]

MarkStale(qu) == [i \in 1..Len(qu) |-> [qu[i] EXCEPT !.stale = TRUE]]

Present ==
    /\ pc = "present"
    /\ LET q == questions[qi] IN
        \E opts \in ShuffleOutcomes(Len(q.wrong_answers) + 1) :
            /\ options' = opts
            /\ correct_answer' = CorrectPosition(q, opts)
            /\ shown' = RenderLines(q, opts)
            /\ out' = Append(out, Line("header", qi, q.text))
    /\ queue' = MarkStale(queue)
    /\ last_key' = NoEvent
    /\ pc' = "await"
    /\ UNCHANGED <<sigint, exit_code, io, inputs_left, xmlvars, parsevars,
                   questions, qi,
                   answer, answered_correctly, answered_incorrectly>>

(* char::from_digit(num, radix) *)
FromDigit(num, radix) == IF num < radix THEN Some(DigitChars[num + 1]) ELSE None

(* The loop `for option in options.clone()` on a key event: the option     *)
(* matched, no match, or the panic of expect() on from_digit's None.       *)
RECURSIVE MatchKey(_, _, _)
MatchKey(opts, code, i) ==
    IF i > Len(opts) THEN [res |-> "none", answer |-> -1]
    ELSE LET option_char == FromDigit(opts[i] + 1, Radix) IN
         IF ~IsSome(option_char) THEN [res |-> "panic", answer |-> -1]
         ELSE IF code = Unwrap(option_char) THEN [res |-> "match", answer |-> opts[i]]
         ELSE MatchKey(opts, code, i + 1)

OnEvent(e, opts) ==
    IF e.kind = "key" THEN MatchKey(opts, e.code, 1)
    ELSE [res |-> "none", answer |-> -1]

AwaitRead ==
    /\ pc = "await"
    /\ queue # <<>>
    /\ Head(queue).kind # "error"
    /\ last_key' = Head(queue)
    /\ queue' = Tail(queue)
    /\ LET r == OnEvent(Head(queue), options) IN
        /\ pc' = CASE r.res = "match" -> "decided"
                   [] r.res = "panic" -> Panicked
                   [] OTHER -> "await"
        /\ exit_code' = IF r.res = "panic" THEN PanicStatus ELSE exit_code
        /\ answer' = IF r.res = "match" THEN r.answer ELSE answer
    /\ UNCHANGED <<sigint, out, io, inputs_left, xmlvars, parsevars, questions,
                   qi, options, shown, correct_answer, answered_correctly,
                   answered_incorrectly>>

AwaitReadErr_Resolves ==
    /\ pc = "await"
    /\ queue # <<>>
    /\ Head(queue).kind = "error"
    /\ queue' = Tail(queue)
    /\ out' = Append(out, Line("read_error", 0, "There was an error whilst reading the answer."))
    /\ pc' = "decided"
    /\ UNCHANGED <<sigint, exit_code, io, inputs_left, xmlvars, parsevars,
                   questions, gamevars>>

(* Err(_) => println!(..): the loop goes on. *)
AwaitReadErr ==
    /\ pc = "await"
    /\ queue # <<>>
    /\ Head(queue).kind = "error"
    /\ queue' = Tail(queue)
    /\ out' = Append(out, Line("read_error", 0, "There was an error whilst reading the answer."))
    /\ UNCHANGED <<sigint, pc, exit_code, io, inputs_left, xmlvars, parsevars,
                   questions,
                   gamevars>>

Scored_Both(ans, correct, c, w) ==
    IF ans = correct THEN [c |-> c + 1, w |-> w, line |-> Line("correct", 0, "Correct!")]
    ELSE [c |-> c + 1, w |-> w + 1, line |-> Line("wrong", 0, questions[qi].answer)]

(* The counters after the comparison answer == correct_answer. *)
Scored(ans, correct, c, w) ==
    IF ans = correct THEN [c |-> c + 1, w |-> w, line |-> Line("correct", 0, "Correct!")]
    ELSE [c |-> c, w |-> w + 1, line |-> Line("wrong", 0, questions[qi].answer)]

AfterRound_Early(i) == "tally"

(* The for loop moves to the next question, or ends. *)
AfterRound(i) == IF i + 1 > Len(questions) THEN "tally" ELSE "present"

Score ==
    /\ pc = "decided"
    /\ LET r == Scored(answer, correct_answer, answered_correctly, answered_incorrectly) IN
        /\ answered_correctly' = r.c
        /\ answered_incorrectly' = r.w
        /\ out' = Append(out, r.line)
    /\ qi' = qi + 1
    /\ pc' = AfterRound(qi)
    /\ UNCHANGED <<sigint, exit_code, io, termvars, xmlvars, parsevars,
                   questions, options,
                   shown, correct_answer, answer, last_key>>

(* The final println!; run_game and main return. *)
Tally ==
    /\ pc = "tally"
    /\ out' = Append(out, TallyLine(answered_correctly, answered_incorrectly))
    /\ pc' = "done"
    /\ exit_code' = 0
    /\ UNCHANGED <<sigint, io, termvars, xmlvars, parsevars, questions, gamevars>>

---------------------------------------------------------------------------
(* main: the Ctrl-C handler. The signal starts the handler on a thread of  *)
(* its own; the main thread goes on until the handler calls exit(0).       *)

Interrupt ==
    /\ pc \notin {Exited, Panicked, "done"}
    /\ sigint = "none"
    /\ sigint' = "raised"
    /\ UNCHANGED <<pc, exit_code, out, io, termvars, xmlvars, parsevars, questions,
                   gamevars>>

(* std::process::exit(0) in the handler: the whole process ends. *)
HandlerExit ==
    /\ pc \notin {Exited, Panicked, "done"}
    /\ sigint = "raised"
    /\ pc' = Exited
    /\ exit_code' = 0
    /\ UNCHANGED <<sigint, out, io, termvars, xmlvars, parsevars, questions, gamevars>>

---------------------------------------------------------------------------

Init ==
    /\ InitCommon
    /\ io = <<>>
    /\ queue = <<>>
    /\ inputs_left = MaxInputs
    /\ pc = "menu"
    /\ out = MenuLines
    /\ xml_left = MaxXmlShort

Next ==
    \/ Input
    \/ MenuRead
    \/ MenuReadErr
    \/ LoadFileOk
    \/ LoadFileMissing
    \/ ApiGetOk
    \/ ApiGetErr
    \/ ApiJsonOk
    \/ ApiJsonErr
    \/ ParseStartElement
    \/ ParseEndElement
    \/ ParseCharacters
    \/ ParseOther
    \/ ParseError
    \/ ParseReturn
    \/ Present
    \/ AwaitRead
    \/ AwaitReadErr
    \/ Score
    \/ Tally
    \/ Interrupt
    \/ HandlerExit

Spec == Init /\ [][Next]_vars

---------------------------------------------------------------------------
(* What the claims speak of. *)

Count(kinds) == Cardinality({i \in 1..Len(out) : out[i].kind \in kinds})
IsRoundLine(l) == l.kind \in {"header", "correct", "wrong"}
IsHeader(l) == l.kind = "header"
RoundLines == SelectSeq(out, IsRoundLine)
Headers == SelectSeq(out, IsHeader)
NumScored == Count({"correct", "wrong"})
Returned == pc \in {"present", "await", "decided", "tally", "done"}
IsPrefix(a, b) == Len(a) <= Len(b) /\ SubSeq(b, 1, Len(a)) = a

(* The digit a key stands for, -1 for a key that is no digit. *)
KeyDigit(code) ==
    IF \E d \in 0..9 : DigitChars[d + 1] = code
    THEN CHOOSE d \in 0..9 : DigitChars[d + 1] = code
    ELSE -1

(* The event read last in this round names a displayed position. *)
NamesPosition(e) == e.kind = "key" /\ KeyDigit(e.code) \in 1..Len(options)

(* C1: the two counters are never negative and never decrease, their sum   *)
(* is the number of rounds completed so far, and the final tally sums to   *)
(* the length of the question list.                                        *)
C1_Tally ==
    /\ [](/\ answered_correctly >= 0
          /\ answered_incorrectly >= 0
          /\ answered_correctly + answered_incorrectly = NumScored
          /\ pc \in {"present", "await", "decided", "tally"}
                => answered_correctly + answered_incorrectly = qi - 1
          /\ pc = "done"
                => /\ Last(out) = TallyLine(answered_correctly, answered_incorrectly)
                   /\ Last(out).n + Last(out).m = Len(questions))
    /\ [][/\ answered_correctly' >= answered_correctly
          /\ answered_incorrectly' >= answered_incorrectly]_vars

C1_Witness ==
    /\ pc = "done"
    /\ Len(questions) = 2
    /\ answered_correctly = 1
    /\ answered_incorrectly = 1

(* C2: a key press of the digit d of a displayed option resolves the round *)
(* to display position d - 1, and the round is scored correct exactly when *)
(* d - 1 is correct_answer, each counter counting its own rounds.          *)
C2_DigitResolves ==
    NamesPosition(last_key) =>
        /\ pc \notin {"await", Panicked}
        /\ answer = KeyDigit(last_key.code) - 1
        /\ Last(out).kind \in {"correct", "wrong"} =>
              (Last(out).kind = "correct") = (KeyDigit(last_key.code) - 1 = correct_answer)
        /\ answered_correctly = Count({"correct"})
        /\ answered_incorrectly = Count({"wrong"})

(* C3: on display, exactly one position holds the index                    *)
(* wrong_answers.len(); it is correct_answer and shows the answer; every   *)
(* other position i shows wrong_answers[options[i]].                       *)
C3_OneCorrectPosition ==
    pc \in {"await", "decided"} =>
        LET q == questions[qi]
            m == Len(q.wrong_answers)
        IN  /\ Len(options) = m + 1
            /\ Len(shown) = m + 1
            /\ Cardinality({i \in 1..(m + 1) : options[i] = m}) = 1
            /\ \A i \in 1..(m + 1) :
                  /\ shown[i].n = i
                  /\ IF i = correct_answer + 1
                     THEN options[i] = m /\ shown[i].s = q.answer
                     ELSE options[i] < m /\ shown[i].s = q.wrong_answers[options[i] + 1]

C3_Witness ==
    /\ pc = "await"
    /\ options = <<1, 0>>
    /\ correct_answer = 0

(* C4: for a file whose question elements are not nested in one another,   *)
(* the list holds one record per question element closed so far, records   *)
(* are only ever added at its end, and parse_data returns that list.       *)
C4_OneRecordPerQuestion ==
    /\ [](/\ xml_flat => Len(data) = xml_closed
          /\ Returned => questions = data)
    /\ [][IsPrefix(data, data')]_vars

C4_Witness ==
    /\ Returned
    /\ xml_flat
    /\ Len(questions) = 2
    /\ questions[1] # questions[2]

(* C5: an event read in a round that names no displayed position leaves    *)
(* the engine waiting in the same round, with no question counted.         *)
C5_MissIgnored ==
    (pc \in {"await", "decided", Panicked} /\ last_key # NoEvent /\ ~NamesPosition(last_key)) =>
        /\ pc = "await"
        /\ answered_correctly + answered_incorrectly = qi - 1

(* C6: an unexpected opening tag prints the warning and changes none of    *)
(* data, cur_question, cur_data; and as long as its element is open (its   *)
(* content is being read) parse_data has not aborted.                      *)
C6_UnexpectedSkipped ==
    IsSome(skip) =>
        LET k == Unwrap(skip) IN
        /\ pc # Panicked
        /\ Len(out) > k.lines
        /\ out[k.lines + 1] = warn_unexpected_tag(xml_stack[k.depth], FALSE)
        /\ xml_left = k.left - 1 =>
              data = k.data /\ cur_question = k.cur_question /\ cur_data = k.cur_data

(* C7: every question in the output list has a non-empty text.             *)
C7_TextNonEmpty == \A i \in 1..Len(data) : data[i].text # ""

(* C8: the event that decides a round was generated after the round's      *)
(* question was displayed.                                                 *)
C8_NoStaleAnswer == pc = "decided" => ~last_key.stale

(* C9: a failed ingestion call is the last one made: the error is the last *)
(* line printed, the process has exited with code 1, no round was run, no  *)
(* question reached main, and only one source was ever called; and the     *)
(* process exits with code 1 in no other way.                              *)
OneSource ==
    \/ \A i \in 1..Len(io) : io[i].call \in {"open", "xml"}
    \/ \A i \in 1..Len(io) : io[i].call \in {"get", "json"}

C9_FatalIngestion ==
    /\ \A i \in 1..Len(io) :
          ~io[i].ok =>
              /\ i = Len(io)
              /\ pc = Exited
              /\ exit_code = 1
              /\ Last(out).kind = "fatal"
              /\ Count({"header", "correct", "wrong", "tally"}) = 0
              /\ questions = <<>>
    /\ OneSource
    /\ \A i, j \in 1..Len(io) : io[i].call = io[j].call => i = j
    /\ exit_code = 1 => io # <<>> /\ ~Last(io).ok

C9_Witness ==
    /\ pc = Exited
    /\ exit_code = 1
    /\ io # <<>>
    /\ Last(io).call = "xml"
    /\ data # <<>>

(* C10: the rounds follow AwaitingInput -> Scored -> next round or Done    *)
(* (or the process ends): the questions are displayed in list order, each  *)
(* is scored once before the next is displayed, the index never goes back, *)
(* and the tally is printed once, last, after every question was scored.   *)
C10_StateMachine ==
    /\ [](/\ \A i \in 1..Len(Headers) : Headers[i] = Line("header", i, questions[i].text)
          /\ \A i \in 1..Len(RoundLines) : IsHeader(RoundLines[i]) = (i % 2 = 1)
          /\ Count({"tally"}) <= 1
          /\ Count({"tally"}) = 1
                => Last(out).kind = "tally" /\ NumScored = Len(questions) /\ pc = "done"
          /\ pc = "done" => Count({"tally"}) = 1
          /\ pc = "tally" => NumScored = Len(questions)
          /\ pc = "await" => Len(RoundLines) = 2 * qi - 1
          /\ pc = "decided" => Len(RoundLines) = 2 * qi - 1)
    /\ [][/\ pc = "present" => pc' \in {"present", "await", Exited}
          /\ pc = "await" => pc' \in {"await", "decided", Panicked, Exited}
          /\ pc = "decided" => pc' \in {"decided", "present", "tally", Exited}
          /\ pc = "tally" => pc' \in {"tally", "done", Exited}
          /\ pc \in {"done", Exited, Panicked} => pc' = pc
          /\ pc \in {"present", "await", "decided", "tally", "done"}
                => qi' = IF pc = "decided" /\ pc' \in {"present", "tally"}
                         THEN qi + 1 ELSE qi]_vars

C10_Witness ==
    /\ pc = "done"
    /\ Len(questions) = 2
    /\ Len(out) >= 6

(* Steps of the reader, told by the stack of open elements. *)
Opens(name) == Len(xml_stack') > Len(xml_stack) /\ Last(xml_stack') = name
Closes(name) == Len(xml_stack') < Len(xml_stack) /\ Last(xml_stack) = name

(* A panic of run_game, as opposed to one of parse_data. *)
GamePanicked == pc = Panicked /\ last_key # NoEvent
ParsePanicked == pc = Panicked /\ last_key = NoEvent

(* C11: run_game never aborts before the last question is scored (so that, *)
(* with a matching key arriving in every round, it reaches Done and prints *)
(* the tally).                                                             *)
C11_NeverAborts == ~GamePanicked

(* C12: every unexpected closing tag read so far was reported with its     *)
(* warning: the closing warnings printed are as many as those tags.        *)
C12_CloseWarned ==
    Cardinality({i \in 1..Len(out) : out[i].kind = "warn" /\ out[i].n = 1}) = xml_bad_close

(* C13: as long as the menu waits no ingestion call was made and nothing   *)
(* but the menu was printed; an event read at the menu starts the file     *)
(* source on key '1', the network source on key '2', and otherwise leaves  *)
(* the menu waiting with nothing printed; the menu is left in no other way *)
(* (but by the end of the process), and each source makes its own call.    *)
C13_MenuWaits ==
    /\ [](pc = "menu" => io = <<>> /\ out = MenuLines /\ questions = <<>>)
    /\ [][(pc = "menu" /\ Len(queue') < Len(queue)) =>
            LET e == Head(queue) IN
            /\ e.kind = "key" /\ e.code = "1" => pc' = "load_file"
            /\ e.kind = "key" /\ e.code = "2" => pc' = "api_get"
            /\ ~(e.kind = "key" /\ e.code \in {"1", "2"}) => pc' = "menu"
            /\ io' = io
            /\ out' = out]_vars
    /\ [][(pc = "menu" /\ pc' # "menu") => (Len(queue') < Len(queue) \/ pc' = Exited)]_vars
    /\ [][/\ (pc = "load_file" /\ io' # io) => Last(io').call = "open"
          /\ (pc = "api_get" /\ io' # io) => Last(io').call = "get"]_vars

C13_Witness ==
    /\ pc = "menu"
    /\ inputs_left = 0
    /\ queue = <<>>
    /\ sigint = "none"

(* C14: once the interrupt signal is delivered nothing more is printed,    *)
(* whatever the main thread is doing.                                      *)
C14_NoOutputAfterInterrupt == [][sigint = "raised" => out' = out]_vars

(* C15: while a question is on display options has wrong_answers.len() + 1 *)
(* entries and holds each index 0..=wrong_answers.len() exactly once.      *)
C15_OptionsPermutation ==
    pc \in {"await", "decided"} =>
        LET m == Len(questions[qi].wrong_answers) IN
        /\ Len(options) = m + 1
        /\ \A v \in 0..m : Cardinality({i \in 1..Len(options) : options[i] = v}) = 1

C15_Witness ==
    /\ pc = "await"
    /\ qi = 2
    /\ Len(questions[1].wrong_answers) = BigWrong
    /\ options = <<1, 0>>

(* C16: an opening question tag starts an empty record; a closing field    *)
(* tag stores the content of its element in the field of its name (prompt  *)
(* in text, correctAnswer in answer, incorrectAnswer at the end of         *)
(* wrong_answers) of the question in progress and leaves its other fields; *)
(* a closing question tag emits the record as it stands; no other event    *)
(* touches the record in progress or the list.                             *)
C16_FieldsOfOwnQuestion ==
    [][/\ Opens("question") => cur_question' = Some(QuestionNew) /\ data' = data
       /\ (Closes("question") /\ IsSome(cur_question))
             => data' = Append(data, Unwrap(cur_question)) /\ cur_question' = None
       /\ \A f \in FieldTags :
             (Closes(f) /\ IsSome(cur_question) /\ pc' # Panicked) =>
                 LET q == Unwrap(cur_question)
                     c == Last(xml_text)
                 IN  /\ cur_question' = Some(Question(
                            IF f = "prompt" THEN c ELSE q.text,
                            IF f = "correctAnswer" THEN c ELSE q.answer,
                            IF f = "incorrectAnswer" THEN Append(q.wrong_answers, c)
                            ELSE q.wrong_answers))
                     /\ data' = data
       /\ ~(\/ Opens("question")
            \/ IsSome(cur_question) /\ \E n \in {"question"} \cup FieldTags : Closes(n))
             => UNCHANGED <<cur_question, data>>]_vars

C16_Witness ==
    /\ Returned
    /\ questions = <<Question("a", "b", <<>>)>>

C18_ReadErrorKeepsWaiting ==
    [][(pc = "await" /\ Len(queue') < Len(queue) /\ Head(queue).kind = "error") =>
          /\ pc' = "await"
          /\ out' = Append(out, Line("read_error", 0, "There was an error whilst reading the answer."))
          /\ UNCHANGED <<qi, answer, answered_correctly, answered_incorrectly,
                         options, shown, correct_answer, exit_code>>]_vars

C18_Witness ==
    /\ pc = "await"
    /\ Last(out).kind = "read_error"

(* C19: on properly nested events parse_data never panics.                 *)
C19_ParseNeverPanics == ~ParsePanicked

(* C20: while a round waits, every displayed position p has a key whose    *)
(* press resolves the round with answer p.                                 *)
KeyChars == {DigitChars[i] : i \in 1..Len(DigitChars)} \cup {"a"}

C20_EveryPositionHasKey ==
    pc = "await" =>
        \A p \in 0..(Len(options) - 1) :
            \E c \in KeyChars : MatchKey(options, c, 1) = [res |-> "match", answer |-> p]

====
